---- MODULE Spec2Model ----
(***************************************************************************)
(* The game server of server/server.py: a registry of game modules         *)
(* (games), the session cell (current_game), the loader with hot reload    *)
(* (load_game, load_all_games, GameReloader.on_modified) and the request   *)
(* handlers (list_games, start_game, send_message, reset_game, health).    *)
(***************************************************************************)
EXTENDS Integers, Sequences, FiniteSets, TLC

\* ------------------------------------------------------------------ bounds
\* number_of_guesses is an unbounded Python int; message() is only taken
\* while the counter is below this cap.
MaxCount == 1
\* How many file modifications the environment makes while the server runs.
MaxEdits == 1
\* How many times the watched file is saved when the watcher runs alone.
MaxSaves == 2

\* ------------------------------------------------------- directory entries
NoGame == "None"                       \* Python's None in current_game
IgnoredEntry == "__init__.py"          \* the entry load_all_games skips
UnitEntries == {"alpha.py", "beta.py"}
PyEntries == UnitEntries \cup {IgnoredEntry}
Entries == PyEntries \cup {"notes.txt"}

\* Path(p).stem
Stem(e) ==
  CASE e = "alpha.py" -> "alpha"
    [] e = "beta.py" -> "beta"
    [] e = "__init__.py" -> "__init__"
    [] OTHER -> "notes"

\* str.endswith('.py')
EndsWithPy(e) == e \in PyEntries

Units == {Stem(e) : e \in UnitEntries}
ModNames == {Stem(e) : e \in PyEntries}
\* the names a request may carry; one whose file failed to load is a name
\* that is not in games
ReqNames == Units

\* ------------------------------------------------------ module definitions
\* The content of a game file is a list of module-level statements, run top
\* to bottom when the module is imported or reloaded (games/number.py):
\*   set_secret : secret_number = None
\*   set_count  : number_of_guesses = 0
\*   def_start  : def start(): ...
\*   def_message: def message(user_input): ...
\*   raise      : a statement that raises at import time
\* A function is [kind, tag]: what calling it does, and which version of the
\* file defined it (tag is what its reply text shows).
Stmt(op, kind) == [op |-> op, kind |-> kind]

DefIds == {"v1", "v2", "nocaps", "badret", "raises", "broken", "syntax"}

\* what the game files hold when the server starts: a game that loads and
\* one whose import fails
InitDefs == {"v1", "broken"}

\* the file does not compile (SyntaxError before any statement runs)
Compiles(d) == d # "syntax"

Body(d) ==
  CASE d = "v1" ->
         <<Stmt("set_secret", "-"), Stmt("set_count", "-"),
           Stmt("def_start", "ok"), Stmt("def_message", "ok")>>
    [] d = "v2" ->
         <<Stmt("set_secret", "-"), Stmt("set_count", "-"),
           Stmt("def_start", "ok"), Stmt("def_message", "ok")>>
    [] d = "nocaps" ->
         <<Stmt("set_secret", "-"), Stmt("set_count", "-")>>
    [] d = "badret" ->
         <<Stmt("set_secret", "-"), Stmt("set_count", "-"),
           Stmt("def_start", "nontext"), Stmt("def_message", "nontext")>>
    [] d = "raises" ->
         <<Stmt("set_secret", "-"), Stmt("set_count", "-"),
           Stmt("def_start", "fault"), Stmt("def_message", "fault")>>
    [] d = "broken" ->
         <<Stmt("set_secret", "-"), Stmt("set_count", "-"),
           Stmt("raise", "-"),
           Stmt("def_start", "ok"), Stmt("def_message", "ok")>>
    [] d = "empty" -> << >>
    [] OTHER -> << >>

\* the content of __init__.py: nothing a game needs
InitPyDef == "empty"

\* -------------------------------------------------------- module objects
NoFn == [kind |-> "absent", tag |-> "-"]
\* a name that is not in sys.modules
NoModule == [loaded |-> FALSE, secret |-> "None", count |-> 0,
             start |-> NoFn, message |-> NoFn]
\* types.ModuleType(name): an empty namespace
NewModule == [NoModule EXCEPT !.loaded = TRUE]

VARIABLES
  games,         \* games: dict name -> module (a reference into sys_modules)
  current_game,  \* current_game
  sys_modules,   \* sys.modules["games.<name>"]: the module objects
  disk,          \* the content of each game file in GAMES_DIR
  phase,         \* "loading" (load_all_games), then "serving" (app.run)
  todo,          \* entries GAMES_DIR.glob("*.py") has still to yield
  events,        \* the observer's queue of modification events
  edits,         \* file modifications made so far
  last,          \* the last operation and what it returned
  req,           \* the request a Flask worker thread is in the middle of
  rl,            \* the reload the observer thread is in the middle of
  rs,            \* the reset_game another worker thread is in the middle of
  attrgen        \* for each module attribute, the load that last bound it

vars == <<games, current_game, sys_modules, disk, phase, todo, events, edits, last,
          req, rl, rs, attrgen>>
\* what only the statement-by-statement threads of ConcSpec use
conc == <<req, rl, rs, attrgen>>

\* one statement of a module body, run in the module's namespace
ExecStmt(ns, s, d) ==
  CASE s.op = "set_secret" -> [ns EXCEPT !.secret = "None"]
    [] s.op = "set_count" -> [ns EXCEPT !.count = 0]
    [] s.op = "def_start" -> [ns EXCEPT !.start = [kind |-> s.kind, tag |-> d]]
    [] s.op = "def_message" -> [ns EXCEPT !.message = [kind |-> s.kind, tag |-> d]]
    [] OTHER -> ns

\* exec(code, module.__dict__): statements i.. of definition d, stopping at
\* the first one that raises; ok tells whether the end was reached
RECURSIVE ExecFrom(_, _, _)
ExecFrom(ns, d, i) ==
  IF i > Len(Body(d)) THEN [ns |-> ns, ok |-> TRUE]
  ELSE IF Body(d)[i].op = "raise" THEN [ns |-> ns, ok |-> FALSE]
  ELSE ExecFrom(ExecStmt(ns, Body(d)[i], d), d, i + 1)

ExecModule(ns, d) ==
  IF Compiles(d) THEN ExecFrom(ns, d, 1) ELSE [ns |-> ns, ok |-> FALSE]

\* importlib.import_module: a new module object, kept in sys.modules only
\* when its body ran to the end
ImportModule(mods, n, d) ==
  LET r == ExecModule(NewModule, d)
  IN [mods |-> IF r.ok THEN [mods EXCEPT ![n] = r.ns] ELSE mods, ok |-> r.ok]

\* importlib.reload: the body runs again in the namespace of the module
\* object that is already in sys.modules; what it bound before a failure
\* stays bound
ReloadModule(mods, n, d) ==
  LET r == ExecModule(mods[n], d)
  IN [mods |-> [mods EXCEPT ![n] = r.ns], ok |-> r.ok]

\* (a load_game that drops the entry of a name whose load failed)
LoadGameDropsOnFailure(mods, gs, n, d) ==
  LET r == IF mods[n].loaded THEN ReloadModule(mods, n, d)
           ELSE ImportModule(mods, n, d)
  IN [mods |-> r.mods,
      games |-> IF r.ok THEN [k \in DOMAIN gs \cup {n} |-> k]
                ELSE [k \in DOMAIN gs \ {n} |-> k],
      ok |-> r.ok]

\* (a load_game that registers the name whether or not the load succeeded)
LoadGameRegistersAnyway(mods, gs, n, d) ==
  LET r == IF mods[n].loaded THEN ReloadModule(mods, n, d)
           ELSE ImportModule(mods, n, d)
  IN [mods |-> r.mods, games |-> [k \in DOMAIN gs \cup {n} |-> k], ok |-> r.ok]

\* load_game(game_name): the new sys.modules, the new games, and the result
LoadGame(mods, gs, n, d) ==
  LET r == IF mods[n].loaded THEN ReloadModule(mods, n, d)
           ELSE ImportModule(mods, n, d)
  IN [mods |-> r.mods,
      games |-> IF r.ok THEN [k \in DOMAIN gs \cup {n} |-> k] ELSE gs,
      ok |-> r.ok]

\* the content load_game finds for a name
Content(n) == IF n = "__init__" THEN InitPyDef ELSE disk[n]

\* ------------------------------------------------------ the last operation
\* the keys of the JSON object handler op returns with outcome kind
ResponseKeys(op, kind) ==
  CASE kind = "NotFound" -> {"error", "available_games"}
    [] kind = "NoJSON" -> {"error", "help"}
    [] kind = "MissingCapability" -> {"error", "help"}
    [] kind = "WrongReturnType" -> {"error", "returned_value", "help"}
    [] kind = "UnitFault" -> {"error", "type", "message", "traceback", "help"}
    [] op \in {"start", "message"} -> {"message", "game"}
    [] op = "list" -> {"games", "current_game"}
    [] op = "reset" -> {"status", "was_playing"}
    [] op = "health" -> {"status", "games_loaded", "current_game"}
    [] OTHER -> {}

\* what the strings of that object are formatted from: the game_name of the
\* request, the name of the function called, type(result).__name__ and
\* str(result), type(error).__name__ and str(error), format_exc()
ResponseShows(op, kind) ==
  CASE kind = "NotFound" -> {"game_name"}
    [] kind = "MissingCapability" -> {"game_name", "function"}
    [] kind = "WrongReturnType" ->
         {"game_name", "function", "type(result)", "str(result)"}
    [] kind = "UnitFault" ->
         {"game_name", "function", "type(error)", "str(error)", "format_exc()"}
    [] OTHER -> {}

\* op and name: the operation and the unit it named; status, kind, text,
\* active, names: what it returned (the HTTP status, the outcome, the reply
\* text under "message", the current_game or was_playing it reports, the
\* names it lists); keys, shows: the shape of the JSON object returned;
\* was: current_game when the operation began
Op(op, name, status, kind, text, active) ==
  [op |-> op, name |-> name, status |-> status, kind |-> kind,
   text |-> text, active |-> active, names |-> {}, was |-> current_game,
   keys |-> ResponseKeys(op, kind), shows |-> ResponseShows(op, kind)]

\* no request in flight; a request in flight: its handler (op), the unit it
\* names, its input, the function object it fetched from the module (fn) and
\* the load that had defined it (gen), the next statement of the function
\* (i), its local variable (tmp), what it returned (out), and whether it has
\* touched module state bound by another load than its own (mixed)
IdleReq == [pc |-> "idle", op |-> "-", name |-> "-", x |-> "-", fn |-> NoFn,
            gen |-> 0, i |-> 0, tmp |-> 0, out |-> "-", mixed |-> FALSE]
\* no reload in flight; a reload in flight: the module, the code compiled
\* from its file (def), the next statement of it (i) and the number of this
\* load (gen)
IdleRl == [pc |-> "idle", name |-> "-", def |-> "-", i |-> 0, gen |-> 0]
\* no reset in flight; a reset in flight: its local old_game
IdleRs == [pc |-> "idle", old |-> NoGame]
\* every attribute of a module bound by load g
AllGen(g) == [secret |-> g, count |-> g, start |-> g, message |-> g]

Init ==
  /\ games = << >>
  /\ current_game = NoGame
  /\ sys_modules = [n \in ModNames |-> NoModule]
  /\ disk \in [Units -> InitDefs]
  /\ phase = "loading"
  /\ todo = PyEntries
  /\ events = << >>
  /\ edits = 0
  /\ last = Op("boot", "-", 0, "-", "-", NoGame)
  /\ req = IdleReq
  /\ rl = IdleRl
  /\ rs = IdleRs
  /\ attrgen = [n \in ModNames |-> AllGen(0)]

\* ------------------------------------------------------------ the loader
\* (a loop that a failed load_game ends)
RestOfLoopAbort(td, e, ok) == IF ok THEN td \ {e} ELSE {}

\* the entries the for loop of load_all_games goes on to after entry e, ok
\* being what load_game returned for it: its result is dropped
RestOfLoop(td, e, ok) == td \ {e}

\* one iteration of the loop of load_all_games, over any entry not yet seen
DiscoverStep(e) ==
  /\ phase = "loading"
  /\ e \in todo
  /\ todo' = RestOfLoop(todo, e,
                        e = IgnoredEntry
                        \/ LoadGame(sys_modules, games, Stem(e), Content(Stem(e))).ok)
  /\ IF e # IgnoredEntry
     THEN LET r == LoadGame(sys_modules, games, Stem(e), Content(Stem(e)))
          IN /\ sys_modules' = r.mods
             /\ games' = r.games
             /\ last' = Op("load", Stem(e), 0, IF r.ok THEN "loaded" ELSE "failed",
                           "-", NoGame)
     ELSE /\ UNCHANGED <<sys_modules, games>>
          /\ last' = Op("skip", Stem(e), 0, "-", "-", NoGame)
  /\ UNCHANGED <<current_game, disk, phase, events, edits, conc>>

\* load_all_games has returned: observer.start() and app.run()
StartServing ==
  /\ phase = "loading"
  /\ todo = {}
  /\ phase' = "serving"
  /\ last' = Op("serve", "-", 0, "-", "-", NoGame)
  /\ UNCHANGED <<games, current_game, sys_modules, disk, todo, events, edits, conc>>

\* somebody saves game file e with content d, the max-th save at most; the
\* observer queues the event
Save(e, d, max) ==
  /\ phase = "serving"
  /\ edits < max
  /\ edits' = edits + 1
  /\ disk' = [disk EXCEPT ![Stem(e)] = d]
  /\ events' = Append(events, e)
  /\ last' = Op("edit", Stem(e), 0, "-", "-", NoGame)
  /\ UNCHANGED <<games, current_game, sys_modules, phase, todo, conc>>

Edit(e, d) == Save(e, d, MaxEdits)

\* somebody saves another entry of GAMES_DIR (__init__.py, a text file)
Touch(e) ==
  /\ phase = "serving"
  /\ edits < MaxEdits
  /\ edits' = edits + 1
  /\ events' = Append(events, e)
  /\ last' = Op("edit", Stem(e), 0, "-", "-", NoGame)
  /\ UNCHANGED <<games, current_game, sys_modules, disk, phase, todo, conc>>

\* GameReloader.on_modified(event), for the oldest queued event
OnModified ==
  /\ phase = "serving"
  /\ events # << >>
  /\ events' = Tail(events)
  /\ LET e == Head(events)
     IN IF EndsWithPy(e)
        THEN LET r == LoadGame(sys_modules, games, Stem(e), Content(Stem(e)))
             IN /\ sys_modules' = r.mods
                /\ games' = r.games
                /\ last' = Op("reload", Stem(e), 0,
                              IF r.ok THEN "loaded" ELSE "failed", "-", NoGame)
        ELSE /\ UNCHANGED <<sys_modules, games>>
             /\ last' = Op("ignored", Stem(e), 0, "-", "-", NoGame)
  /\ UNCHANGED <<current_game, disk, phase, todo, edits, conc>>

\* ------------------------------------------------------ calling a game
\* str(result) of a result that is not a string
RawValue == "raw"

\* game_module.start(): the namespace after the call and what came back.
\*   ok      : games/number.py start(): picks a secret, zeroes the counter,
\*             returns the greeting
\*   nontext : the same body without a string to return
\*   fault   : raises
CallStart(ns) ==
  CASE ns.start.kind = "ok" ->
         [ns |-> [ns EXCEPT !.secret = "set", !.count = 0],
          out |-> "text", text |-> ns.start.tag]
    [] ns.start.kind = "nontext" ->
         [ns |-> [ns EXCEPT !.secret = "set", !.count = 0],
          out |-> "number", text |-> RawValue]
    [] OTHER -> [ns |-> ns, out |-> "fault", text |-> "-"]

\* request.get_json(): None, or the 'input' it carries: a number, or text
\* int() rejects
NoData == "None"
Inputs == {"7", "junk"}

\* game_module.message(user_input).
\*   ok      : games/number.py message(): int(user_input) raises on junk;
\*             the counter is incremented; the comparison with a secret
\*             that is still None raises; otherwise a reply
\*   nontext : returns the counter itself
\*   fault   : raises
CallMessage(ns, x) ==
  CASE ns.message.kind = "ok" ->
         IF x = "junk" THEN [ns |-> ns, out |-> "fault", text |-> "-"]
         ELSE IF ns.secret = "None"
         THEN [ns |-> [ns EXCEPT !.count = @ + 1], out |-> "fault", text |-> "-"]
         ELSE [ns |-> [ns EXCEPT !.count = @ + 1], out |-> "text",
               text |-> ns.message.tag]
    [] ns.message.kind = "nontext" -> [ns |-> ns, out |-> "number", text |-> RawValue]
    [] OTHER -> [ns |-> ns, out |-> "fault", text |-> "-"]

\* (a handler that calls the function without looking for it)
HasAttrAssumed(ns, name) == TRUE

\* hasattr(game_module, name)
HasAttr(ns, name) ==
  IF name = "start" THEN ns.start.kind # "absent" ELSE ns.message.kind # "absent"

\* (a check that lets through whatever the function returned)
IsStrAny(r) == r.out # "fault"

\* isinstance(result, str)
IsStr(r) == r.out = "text"

\* ------------------------------------------------------ request handlers
\* list_games()
ListGames ==
  /\ phase = "serving"
  /\ last' = [Op("list", "-", 200, "ok", "-", current_game)
                EXCEPT !.names = DOMAIN games]
  /\ UNCHANGED <<games, current_game, sys_modules, disk, phase, todo, events, edits, conc>>

\* health()
Health ==
  /\ phase = "serving"
  /\ last' = [Op("health", "-", 200, "ok", "-", current_game)
                EXCEPT !.names = DOMAIN games]
  /\ UNCHANGED <<games, current_game, sys_modules, disk, phase, todo, events, edits, conc>>

\* (a start_game that loses the assignment of current_game)
AfterStartLost(cg, n, r) == cg

\* current_game once start() has returned r: the assignment comes before
\* the check of r's type
AfterStart(cg, n, r) == n

\* (a start_game that assigns current_game before it calls start())
AfterStartFaultSelects(cg, n) == n

\* current_game when start() has raised: the assignment is not reached
AfterStartFault(cg, n) == cg

\* start_game(game_name)
StartGame(n) ==
  /\ phase = "serving"
  /\ IF n \notin DOMAIN games
     THEN /\ last' = Op("start", n, 404, "NotFound", "-", NoGame)
          /\ UNCHANGED <<current_game, sys_modules>>
     ELSE LET ns == sys_modules[games[n]]
          IN IF ~HasAttr(ns, "start")
             THEN /\ last' = Op("start", n, 500, "MissingCapability", "-", NoGame)
                  /\ UNCHANGED <<current_game, sys_modules>>
             ELSE LET r == CallStart(ns)
                  IN /\ sys_modules' = [sys_modules EXCEPT ![games[n]] = r.ns]
                     /\ IF r.out = "fault"
                        THEN /\ last' = Op("start", n, 500, "UnitFault", "-", NoGame)
                             /\ current_game' = AfterStartFault(current_game, n)
                        ELSE /\ current_game' = AfterStart(current_game, n, r)
                             /\ last' = IF IsStr(r)
                                        THEN Op("start", n, 200, "ok", r.text, NoGame)
                                        ELSE Op("start", n, 500, "WrongReturnType",
                                                "-", NoGame)
  /\ UNCHANGED <<games, disk, phase, todo, events, edits, conc>>

\* (a send_message that selects the game it is sent to)
AfterMessageSelects(cg, n) == n

\* current_game when send_message returns: the handler has no statement
\* that assigns it
AfterMessage(cg, n) == cg

\* send_message(game_name), data being what request.get_json() returns
SendMessage(n, x) ==
  /\ phase = "serving"
  /\ IF n \notin DOMAIN games
     THEN /\ last' = Op("message", n, 404, "NotFound", "-", NoGame)
          /\ UNCHANGED sys_modules
     ELSE IF x = NoData
     THEN /\ last' = Op("message", n, 400, "NoJSON", "-", NoGame)
          /\ UNCHANGED sys_modules
     ELSE LET ns == sys_modules[games[n]]
          IN IF ~HasAttr(ns, "message")
             THEN /\ last' = Op("message", n, 500, "MissingCapability", "-", NoGame)
                  /\ UNCHANGED sys_modules
             ELSE LET r == CallMessage(ns, x)
                  IN /\ r.ns.count <= MaxCount
                     /\ sys_modules' = [sys_modules EXCEPT ![games[n]] = r.ns]
                     /\ last' = CASE r.out = "fault" ->
                                       Op("message", n, 500, "UnitFault", "-", NoGame)
                                  [] IsStr(r) ->
                                       Op("message", n, 200, "ok", r.text, NoGame)
                                  [] OTHER ->
                                       Op("message", n, 500, "WrongReturnType",
                                          "-", NoGame)
  /\ current_game' = AfterMessage(current_game, n)
  /\ UNCHANGED <<games, disk, phase, todo, events, edits, conc>>

\* (a reset_game that reads current_game after clearing it)
WasPlayingCleared(cg) == NoGame

\* old_game, the was_playing reset_game() returns
WasPlaying(cg) == cg

\* reset_game()
ResetGame ==
  /\ phase = "serving"
  /\ current_game' = NoGame
  /\ last' = Op("reset", "-", 200, "ok", "-", WasPlaying(current_game))
  /\ UNCHANGED <<games, sys_modules, disk, phase, todo, events, edits, conc>>

Next ==
  \/ \E e \in PyEntries : DiscoverStep(e)
  \/ StartServing
  \/ \E e \in UnitEntries, d \in DefIds : Edit(e, d)
  \/ \E e \in Entries \ UnitEntries : Touch(e)
  \/ OnModified
  \/ ListGames
  \/ Health
  \/ \E n \in ReqNames : StartGame(n)
  \/ \E n \in ReqNames, x \in Inputs \cup {NoData} : SendMessage(n, x)
  \/ ResetGame

Spec == Init /\ [][Next]_vars

\* ====================================================================
\* The watcher alone: one game file saved several times over, each save
\* queued as an event and the events handled one after the other by
\* on_modified, in the observer's single thread.
\* ====================================================================
WatchedEntry == "alpha.py"

NextWatch ==
  \/ \E e \in PyEntries : DiscoverStep(e)
  \/ StartServing
  \/ \E d \in DefIds : Save(WatchedEntry, d, MaxSaves)
  \/ OnModified

WatchSpec == Init /\ [][NextWatch]_vars

\* ====================================================================
\* The same server with its two threads interleaved statement by statement:
\* a Flask worker thread serving one request (app.run is threaded) and the
\* observer thread running GameReloader.on_modified. Nothing in server.py
\* locks games or the module objects.
\* ====================================================================
\* the files the environment saves here: complete games, so that a reload
\* run to its end rebinds every attribute of the module
ConcDefs == {"v1", "v2"}

\* the statements of a game function (games/number.py):
\*   start:   secret_number = random.randint(1, 100); number_of_guesses = 0;
\*            return "..."
\*   message: guess = int(user_input.strip()); number_of_guesses += 1 (a
\*            load and a store); the comparisons with secret_number
FnSteps(op, kind) ==
  CASE kind = "fault" -> <<"raise">>
    [] op = "start" -> <<"set_secret", "zero_count", "return">>
    [] kind = "nontext" -> <<"return_count">>
    [] OTHER -> <<"parse", "load_count", "store_count", "compare">>

\* the module attribute a statement of a function reads or writes
Touches(st) ==
  CASE st \in {"set_secret", "compare"} -> {"secret"}
    [] st \in {"zero_count", "load_count", "store_count", "return_count"} -> {"count"}
    [] OTHER -> {}

\* start_game / send_message up to the call: the lookup in games, the
\* hasattr check and the fetch of the function from the module
CallBegin(op, n, x) ==
  /\ phase = "serving"
  /\ req.pc = "idle"
  /\ IF n \notin DOMAIN games
     THEN /\ last' = Op(op, n, 404, "NotFound", "-", NoGame)
          /\ UNCHANGED req
     ELSE IF op = "message" /\ x = NoData
     THEN /\ last' = Op(op, n, 400, "NoJSON", "-", NoGame)
          /\ UNCHANGED req
     ELSE LET ns == sys_modules[games[n]]
              fn == IF op = "start" THEN ns.start ELSE ns.message
          IN IF ~HasAttr(ns, op)
             THEN /\ last' = Op(op, n, 500, "MissingCapability", "-", NoGame)
                  /\ UNCHANGED req
             ELSE /\ (op = "message" /\ fn.kind = "ok") => ns.count < MaxCount
                  /\ req' = [pc |-> "run", op |-> op, name |-> n, x |-> x, fn |-> fn,
                             gen |-> IF op = "start" THEN attrgen[games[n]].start
                                     ELSE attrgen[games[n]].message,
                             i |-> 1, tmp |-> 0, out |-> "-", mixed |-> FALSE]
                  /\ UNCHANGED last
  /\ UNCHANGED <<games, current_game, sys_modules, disk, phase, todo, events, edits,
                 rl, rs, attrgen>>

\* one statement of the function the request is running, in the namespace
\* of the module it was fetched from
CallStep ==
  /\ req.pc = "run"
  /\ LET n == req.name
         ns == sys_modules[n]
         st == FnSteps(req.op, req.fn.kind)[req.i]
         mix == req.mixed \/ \E a \in Touches(st) : attrgen[n][a] # req.gen
         go == [req EXCEPT !.i = @ + 1, !.mixed = mix]
         ret(o) == [req EXCEPT !.pc = "ret", !.out = o, !.mixed = mix]
     IN CASE st = "raise" ->
               req' = ret("fault") /\ UNCHANGED sys_modules
          [] st = "set_secret" ->
               req' = go /\ sys_modules' = [sys_modules EXCEPT ![n].secret = "set"]
          [] st = "zero_count" ->
               req' = go /\ sys_modules' = [sys_modules EXCEPT ![n].count = 0]
          [] st = "return" ->
               /\ req' = ret(IF req.fn.kind = "ok" THEN "text" ELSE "number")
               /\ UNCHANGED sys_modules
          [] st = "return_count" ->
               req' = ret("number") /\ UNCHANGED sys_modules
          [] st = "parse" ->
               /\ req' = IF req.x = "junk" THEN ret("fault") ELSE go
               /\ UNCHANGED sys_modules
          [] st = "load_count" ->
               req' = [go EXCEPT !.tmp = ns.count] /\ UNCHANGED sys_modules
          [] st = "store_count" ->
               /\ req' = go
               /\ sys_modules' = [sys_modules EXCEPT ![n].count = req.tmp + 1]
          [] OTHER ->
               /\ req' = ret(IF ns.secret = "None" THEN "fault" ELSE "text")
               /\ UNCHANGED sys_modules
  /\ UNCHANGED <<games, current_game, disk, phase, todo, events, edits, last,
                 rl, rs, attrgen>>

\* the rest of the handler once the function has returned or raised
CallEnd ==
  /\ req.pc = "ret"
  /\ LET n == req.name
         r == [out |-> req.out, text |-> req.fn.tag]
     IN /\ current_game' =
             IF req.op # "start" THEN current_game
             ELSE IF req.out = "fault" THEN AfterStartFault(current_game, n)
             ELSE AfterStart(current_game, n, r)
        /\ last' = CASE req.out = "fault" -> Op(req.op, n, 500, "UnitFault", "-", NoGame)
                     [] IsStr(r) -> Op(req.op, n, 200, "ok", r.text, NoGame)
                     [] OTHER -> Op(req.op, n, 500, "WrongReturnType", "-", NoGame)
  /\ req' = IdleReq
  /\ UNCHANGED <<games, sys_modules, disk, phase, todo, events, edits, rl, rs, attrgen>>

\* the number of the next load of module n
NextGen(n) ==
  1 + CHOOSE g \in {attrgen[n][a] : a \in DOMAIN attrgen[n]} :
        \A a \in DOMAIN attrgen[n] : attrgen[n][a] <= g

\* on_modified up to the first statement of the module body: load_game on a
\* name that is not in sys.modules imports it (the new module object is not
\* reachable from games until the import is over); on one that is, reload
\* compiles the file and starts running it in the module in place
ReloadBegin ==
  /\ phase = "serving"
  /\ rl.pc = "idle"
  /\ events # << >>
  /\ events' = Tail(events)
  /\ LET e == Head(events)
         n == Stem(e)
     IN IF ~EndsWithPy(e)
        THEN /\ last' = Op("ignored", n, 0, "-", "-", NoGame)
             /\ UNCHANGED <<sys_modules, games, rl, attrgen>>
        ELSE IF sys_modules[n].loaded /\ Compiles(Content(n))
        THEN /\ rl' = [pc |-> "exec", name |-> n, def |-> Content(n), i |-> 1,
                        gen |-> NextGen(n)]
             /\ UNCHANGED <<sys_modules, games, last, attrgen>>
        ELSE LET r == LoadGame(sys_modules, games, n, Content(n))
             IN /\ sys_modules' = r.mods
                /\ games' = r.games
                /\ attrgen' = IF r.ok THEN [attrgen EXCEPT ![n] = AllGen(NextGen(n))]
                              ELSE attrgen
                /\ last' = Op("reload", n, 0, IF r.ok THEN "loaded" ELSE "failed",
                              "-", NoGame)
                /\ UNCHANGED rl
  /\ UNCHANGED <<current_game, disk, phase, todo, edits, req, rs>>

\* the attribute a module-level statement binds
Binds(s) ==
  CASE s.op = "set_secret" -> "secret"
    [] s.op = "set_count" -> "count"
    [] s.op = "def_start" -> "start"
    [] OTHER -> "message"

\* one statement of the module body the reload is running; after the last,
\* games[game_name] = sys.modules[module_path] and load_game returns True;
\* a statement that raises makes it return False
ReloadStep ==
  /\ rl.pc = "exec"
  /\ LET n == rl.name
         body == Body(rl.def)
     IN IF rl.i > Len(body)
        THEN /\ games' = [k \in DOMAIN games \cup {n} |-> k]
             /\ last' = Op("reload", n, 0, "loaded", "-", NoGame)
             /\ rl' = IdleRl
             /\ UNCHANGED <<sys_modules, attrgen>>
        ELSE IF body[rl.i].op = "raise"
        THEN /\ last' = Op("reload", n, 0, "failed", "-", NoGame)
             /\ rl' = IdleRl
             /\ UNCHANGED <<sys_modules, games, attrgen>>
        ELSE /\ sys_modules' = [sys_modules EXCEPT ![n] = ExecStmt(@, body[rl.i], rl.def)]
             /\ attrgen' = [attrgen EXCEPT ![n][Binds(body[rl.i])] = rl.gen]
             /\ rl' = [rl EXCEPT !.i = @ + 1]
             /\ UNCHANGED <<games, last>>
  /\ UNCHANGED <<current_game, disk, phase, todo, events, edits, req, rs>>

\* reset_game in a second worker thread, up to old_game = current_game
ResetBegin ==
  /\ phase = "serving"
  /\ rs.pc = "idle"
  /\ rs' = [pc |-> "clear", old |-> current_game]
  /\ UNCHANGED <<games, current_game, sys_modules, disk, phase, todo, events, edits,
                 last, req, rl, attrgen>>

\* the rest of reset_game: current_game = None, and the response built from
\* old_game
ResetEnd ==
  /\ rs.pc = "clear"
  /\ current_game' = NoGame
  /\ last' = Op("reset", "-", 200, "ok", "-", WasPlaying(rs.old))
  /\ rs' = IdleRs
  /\ UNCHANGED <<games, sys_modules, disk, phase, todo, events, edits, req, rl, attrgen>>

NextConc ==
  \/ \E e \in PyEntries : DiscoverStep(e)
  \/ StartServing
  \/ \E e \in UnitEntries, d \in ConcDefs : Edit(e, d)
  \/ \E n \in ReqNames : CallBegin("start", n, NoData)
  \/ \E n \in ReqNames, x \in Inputs \cup {NoData} : CallBegin("message", n, x)
  \/ CallStep
  \/ CallEnd
  \/ ResetBegin
  \/ ResetEnd
  \/ ReloadBegin
  \/ ReloadStep

ConcSpec == Init /\ [][NextConc]_vars

\* ====================================================================
\* Properties
\* ====================================================================
\* a module object built from scratch from definition d
FreshModule(d) == ExecModule(NewModule, d).ns
\* load_game succeeds on definition d of a name not yet imported
Loads(d) == ExecModule(NewModule, d).ok

IsRequest(l) == l.op \in {"start", "message"}
IsReload(l) == l.op = "reload"

\* C1: a failed StartUnit or SendMessage (any failure outcome) leaves
\* active as it was before the call.
C1_FailedCallKeepsActive ==
  [][(IsRequest(last') /\ last'.status # 200) => current_game' = current_game]_vars

\* C2, as stated: for every loaded unit n, StartUnit(n) followed immediately
\* by ListUnits() reports active = n.
C2_StartThenListAnyLoaded ==
  [][(last.op = "start" /\ last.kind # "NotFound" /\ last'.op = "list")
       => last'.active = last.name]_vars

\* C2, amended: a successful StartUnit(n) sets active to n whatever it was
\* before (Idle or Active(m)), and a ListUnits() that follows it immediately
\* reports active = n.
C2_SuccessfulStartSelects ==
  [][/\ (last'.op = "start" /\ last'.status = 200) => current_game' = last'.name
     /\ (last.op = "start" /\ last.status = 200 /\ last'.op = "list")
          => last'.active = last.name]_vars

\* a successful start that switched from another active unit, with no reset
\* in between
C2_Witness ==
  /\ last.op = "start" /\ last.status = 200
  /\ last.was \in Units /\ last.was # last.name
  /\ current_game = last.name

\* C3: ResetSession() returns the value active held just before the call and
\* leaves active none, so that a ListUnits() that follows reports none.
C3_ResetReturnsPrevious ==
  [][/\ last'.op = "reset" => (last'.active = current_game /\ current_game' = NoGame)
     /\ (last.op = "reset" /\ last'.op = "list") => last'.active = NoGame]_vars

\* a reset that returned a unit whose start capability no longer works
C3_Witness ==
  /\ last.op = "reset" /\ last.active \in Units
  /\ sys_modules[last.active].start.kind \in {"absent", "fault"}
  /\ current_game = NoGame

\* C4: a failed load_or_reload(n) of a registered name leaves the unit under
\* n as it was: the same capabilities, the same private state.
C4_FailedReloadKeepsUnit ==
  [][(IsReload(last') /\ last'.kind = "failed" /\ last'.name \in DOMAIN games)
       => sys_modules'[last'.name] = sys_modules[last'.name]]_vars

\* C5: a call in flight never runs against a mixture of two instances of
\* its unit: the module state its function touches was bound by the same
\* load that defined the function (checked with the threads interleaved,
\* under ConcSpec).
C5_CallSeesOneInstance == ~req.mixed

\* C6: a reload of n, successful or not, removes no name from list_names()
\* and does not change active.
C6_ReloadKeepsNamesAndActive ==
  [][IsReload(last')
       => /\ DOMAIN games \subseteq DOMAIN games'
          /\ current_game' = current_game]_vars

\* a failed reload of the unit that is active
C6_Witness ==
  /\ IsReload(last) /\ last.kind = "failed"
  /\ last.name \in DOMAIN games
  /\ current_game = last.name

\* C7: after a successful reload of a registered name the unit is a fresh
\* instance of the new definition: nothing of the old instance survives.
C7_ReloadIsWholesale ==
  [][(IsReload(last') /\ last'.kind = "loaded" /\ last'.name \in DOMAIN games)
       => sys_modules'[last'.name] = FreshModule(disk[last'.name])]_vars

\* C8: a reload of b leaves every other registered unit as it was, and the
\* message capability b then has is the one its new definition gives.
C8_ReloadTouchesOnlyItsUnit ==
  [][(IsReload(last') /\ last'.kind = "loaded" /\ last'.name \in DOMAIN games)
       => /\ \A a \in DOMAIN games \ {last'.name} :
               a \in DOMAIN games' /\ sys_modules'[games'[a]] = sys_modules[games[a]]
          /\ sys_modules'[last'.name].message
               = FreshModule(disk[last'.name]).message]_vars

\* the start (message) capability of registered unit n raises when called
StartRaises(n) ==
  /\ n \in DOMAIN games
  /\ HasAttr(sys_modules[games[n]], "start")
  /\ CallStart(sys_modules[games[n]]).out = "fault"

MessageRaises(n, x) ==
  /\ n \in DOMAIN games /\ x # NoData
  /\ HasAttr(sys_modules[games[n]], "message")
  /\ CallMessage(sys_modules[games[n]], x).out = "fault"

\* C9: when the start or message capability of unit n raises, the call
\* answers with a UnitFault diagnostic naming n (status 500: the fault does
\* not escape the handler), games and active are unchanged, and every other
\* unit is as it was, so a later call to it is answered as without the fault.
C9_FaultIsolation ==
  [][\A n \in ReqNames :
       (\/ last'.op = "start" /\ StartRaises(n) /\ StartGame(n)
        \/ \E x \in Inputs :
             last'.op = "message" /\ MessageRaises(n, x) /\ SendMessage(n, x))
       => /\ last'.kind = "UnitFault" /\ last'.name = n /\ last'.status = 500
          /\ games' = games
          /\ current_game' = current_game
          /\ \A m \in ModNames \ {n} : sys_modules'[m] = sys_modules[m]]_vars

\* a start that raised while another unit was active
C9_Witness ==
  /\ last.op = "start" /\ last.kind = "UnitFault"
  /\ current_game \in Units /\ current_game # last.name
  /\ sys_modules[current_game].start.kind = "ok"

\* C10: when discover_and_load_all() has completed, the registry holds
\* exactly the non-ignored entries whose load succeeded.
C10_DiscoveryLoadsAllThatLoad ==
  last.op = "serve" => DOMAIN games = {n \in Units : Loads(disk[n])}

\* discovery completed with an entry that failed and one that loaded
C10_Witness ==
  /\ last.op = "serve"
  /\ \E n \in Units : ~Loads(disk[n])
  /\ \E n \in Units : n \in DOMAIN games

\* the message capability of registered unit n answers input x with a text
MessageReplies(n, x) ==
  /\ n \in DOMAIN games /\ x # NoData
  /\ HasAttr(sys_modules[games[n]], "message")
  /\ IsStr(CallMessage(sys_modules[games[n]], x))

\* C11: active is changed by start and reset only: ListUnits, Health,
\* SendMessage (any outcome, any name), a reload and the discovery all leave
\* it as it was; and a SendMessage(n, x) the unit answers is served with
\* that answer whatever active is.
C11_OnlyStartAndResetSetActive ==
  [][/\ last'.op \notin {"start", "reset"} => current_game' = current_game
     /\ \A n \in ReqNames, x \in Inputs :
          (last'.op = "message" /\ MessageReplies(n, x) /\ SendMessage(n, x))
            => /\ last'.status = 200
               /\ last'.text = CallMessage(sys_modules[games[n]], x).text]_vars

\* a message answered while no game is selected
C11_Witness ==
  /\ last.op = "message" /\ last.status = 200
  /\ last.was = NoGame /\ current_game = NoGame

\* C12: when the start or message capability of a unit returns a value that
\* is not a text, the call answers with a WrongReturnType diagnostic, a
\* failure (status 500, never 200), and the value is not delivered as the
\* reply text: the response has no "message" field.
C12_NonTextIsRefused ==
  [][\A n \in ReqNames :
       (\/ /\ last'.op = "start"
            /\ n \in DOMAIN games
            /\ sys_modules[games[n]].start.kind # "absent"
            /\ CallStart(sys_modules[games[n]]).out = "number"
            /\ StartGame(n)
        \/ \E x \in Inputs :
             /\ last'.op = "message"
             /\ n \in DOMAIN games
             /\ sys_modules[games[n]].message.kind # "absent"
             /\ CallMessage(sys_modules[games[n]], x).out = "number"
             /\ SendMessage(n, x))
       => /\ last'.kind = "WrongReturnType" /\ last'.status = 500
          /\ last'.text # RawValue
          /\ "message" \notin last'.keys]_vars

\* a message refused for its return type, sent to a unit whose start had
\* been refused for the same reason
C12_Witness ==
  /\ last.op = "message" /\ last.kind = "WrongReturnType"
  /\ sys_modules[last.name].start.kind = "nontext"
  /\ sys_modules[last.name].secret = "set"

\* C13: when a loaded unit lacks the capability a call asks for, the call
\* answers with a MissingCapability diagnostic whose text names the unit and
\* the capability, nothing of the unit is called (no module changes) and
\* active is not changed.
C13_MissingCapabilityCallsNothing ==
  [][\A n \in ReqNames :
       (\/ /\ last'.op = "start"
            /\ n \in DOMAIN games
            /\ sys_modules[games[n]].start.kind = "absent"
            /\ StartGame(n)
        \/ \E x \in Inputs :
             /\ last'.op = "message"
             /\ n \in DOMAIN games
             /\ sys_modules[games[n]].message.kind = "absent"
             /\ SendMessage(n, x))
       => /\ last'.kind = "MissingCapability" /\ last'.name = n
          /\ last'.status = 500
          /\ {"game_name", "function"} \subseteq last'.shows
          /\ sys_modules' = sys_modules
          /\ current_game' = current_game]_vars

\* a message to a unit without message(), while another unit is selected
C13_Witness ==
  /\ last.op = "message" /\ last.kind = "MissingCapability"
  /\ current_game \in Units /\ current_game # last.name

\* C14: StartUnit(n) and SendMessage(n, x) answer NotFound exactly when n
\* is not a key of games when the call is made; then nothing of any unit is
\* called and neither games nor active changes. A name whose loads have all
\* failed (it is not in sys.modules) is answered NotFound.
C14_NotFoundIffAbsent ==
  [][\A n \in ReqNames :
       (\/ last'.op = "start" /\ last'.name = n /\ StartGame(n)
        \/ /\ last'.op = "message" /\ last'.name = n
           /\ \E x \in Inputs \cup {NoData} : SendMessage(n, x))
       => /\ (last'.kind = "NotFound") <=> (n \notin DOMAIN games)
          /\ last'.kind = "NotFound" => last'.status = 404
          /\ ~sys_modules[n].loaded => last'.kind = "NotFound"
          /\ n \notin DOMAIN games
               => /\ games' = games
                  /\ sys_modules' = sys_modules
                  /\ current_game' = current_game]_vars

\* NotFound for a name whose file was saved again and failed to load again
C14_Witness ==
  /\ last.kind = "NotFound" /\ last.op = "start"
  /\ ~sys_modules[last.name].loaded
  /\ edits > 0 /\ events = << >>
  /\ disk[last.name] \notin InitDefs
  /\ ~Loads(disk[last.name])

\* the failure outcomes of a call into a unit
DiagnosticKinds == {"MissingCapability", "WrongReturnType", "UnitFault"}

\* C15: every diagnostic of a failed unit call (MissingCapability,
\* WrongReturnType or UnitFault, from start or from message) carries the
\* unit name, the failing capability, a human-readable message ("error"),
\* the failure category ("type") and trace context ("traceback").
C15_DiagnosticIsComplete ==
  (IsRequest(last) /\ last.kind \in DiagnosticKinds)
    => /\ {"game_name", "function"} \subseteq last.shows
       /\ {"error", "type", "traceback"} \subseteq last.keys

\* C18: in every reachable state active is none or a name that is a key of
\* games: the session never names a unit that list_names() does not report.
C18_ActiveIsRegistered ==
  current_game = NoGame \/ current_game \in DOMAIN games

\* the file of the selected unit no longer loads, and its failed reload has
\* been processed
C18_Witness ==
  /\ current_game \in Units
  /\ IsReload(last) /\ last.kind = "failed" /\ last.name = current_game
  /\ ~Loads(disk[current_game])
  /\ events = << >>

\* C19: the name of the ignored entry (__init__.py) is never a key of
\* games, whether names come from the discovery or from a modification
\* event, and the event of an ignored or non-unit entry leaves games as it
\* was.
C19_IgnoredEntryNeverRegistered ==
  [][/\ Stem(IgnoredEntry) \notin DOMAIN games'
     /\ (last'.op \in {"reload", "ignored"} /\ last'.name \notin Units)
          => games' = games]_vars

\* C16: the reloads of one unit are done in the order of its modification
\* events, one at a time: once every event of the file has been handled and
\* the last reload succeeded, the unit has the capabilities the last save
\* of the file defines, not those of an earlier content (checked under
\* WatchSpec, after two saves of the file).
C16_LastWriteWins ==
  LET n == Stem(WatchedEntry)
  IN (/\ edits > 1 /\ events = << >>
      /\ IsReload(last) /\ last.name = n /\ last.kind = "loaded")
       => /\ n \in DOMAIN games
          /\ sys_modules[games[n]].start = FreshModule(disk[n]).start
          /\ sys_modules[games[n]].message = FreshModule(disk[n]).message

\* C17: a ResetSession() that runs while a StartUnit(n) is being served
\* returns as previousActive the value of active that its clear overwrote
\* (checked with the threads interleaved, under ConcSpec).
C17_ResetReportsWhatItCleared ==
  last.op = "reset" => last.active = last.was
====
